---- MODULE Spec2Model ----
(***************************************************************************)
(* Model of benchexec/tools/vplc.py: the result classification             *)
(* Tool.determine_result and the statistic extraction                      *)
(* Tool.get_value_from_output.  Both are pure functions of their           *)
(* arguments; each is an operator computed as the Python code computes it  *)
(* (strings are strings, searched and sliced character by character), and  *)
(* a specification draws the arguments from bounded sets and applies it.   *)
(***************************************************************************)
EXTENDS Integers, Sequences, FiniteSets, TLC

VARIABLES
    returncode,     \* determine_result: argument returncode
    returnsignal,   \* determine_result: argument returnsignal
    isTimeout,      \* determine_result: argument isTimeout
    output,         \* determine_result: argument output, a sequence of lines
    result,         \* value returned by determine_result ("" before the call)
    lines,          \* get_value_from_output: argument lines
    identifier,     \* get_value_from_output: argument identifier
    value,          \* value returned by get_value_from_output (None before the call)
    pc              \* "ready" before the call, "done" after the return

vars == <<returncode, returnsignal, isTimeout, output, result,
          lines, identifier, value, pc>>

(***************************************************************************)
(* Bounds of the explored inputs.                                          *)
(***************************************************************************)
\* total number of text fragments in the output given to determine_result
MaxFrags == 2
\* total number of characters in the lines given to get_value_from_output
MaxChars == 4

(***************************************************************************)
(* Python string primitives used by the code.                              *)
(***************************************************************************)
Min(S) == CHOOSE m \in S : \A n \in S : m <= n

\* sub in s
In(sub, s) ==
    \E i \in 1..(Len(s) - Len(sub) + 1) : SubSeq(s, i, i + Len(sub) - 1) = sub

\* s.startswith(prefix)
StartsWith(s, prefix) ==
    /\ Len(prefix) <= Len(s)
    /\ SubSeq(s, 1, Len(prefix)) = prefix

\* s.find(sub, start): lowest 0-based index >= start at which sub occurs, else -1
Find(s, sub, start) ==
    LET hits == {i \in start..(Len(s) - Len(sub)) : SubSeq(s, i + 1, i + Len(sub)) = sub}
    IN  IF hits = {} THEN -1 ELSE Min(hits)

\* s[from:to] for 0 <= from, 0 <= to
Slice(s, from, to) ==
    LET last == IF to < Len(s) THEN to ELSE Len(s)
    IN  IF from >= last THEN "" ELSE SubSeq(s, from + 1, last)

\* s[from:]
SliceFrom(s, from) == Slice(s, from, Len(s))

Whitespace == {" ", "\t"}

RECURSIVE LStrip(_)
LStrip(s) ==
    IF Len(s) > 0 /\ SubSeq(s, 1, 1) \in Whitespace
    THEN LStrip(SubSeq(s, 2, Len(s)))
    ELSE s

RECURSIVE RStrip(_)
RStrip(s) ==
    IF Len(s) > 0 /\ SubSeq(s, Len(s), Len(s)) \in Whitespace
    THEN RStrip(SubSeq(s, 1, Len(s) - 1))
    ELSE s

\* s.strip()
Strip(s) == RStrip(LStrip(s))

Digit(d) == SubSeq("0123456789", d + 1, d + 1)

RECURSIVE NatStr(_)
NatStr(n) == IF n < 10 THEN Digit(n) ELSE NatStr(n \div 10) \o Digit(n % 10)

\* str(n), '{0}'.format(n) for an integer n
Str(n) == IF n < 0 THEN "-" \o NatStr(-n) ELSE NatStr(n)

(***************************************************************************)
(* benchexec.result constants (the module is not part of the sources at    *)
(* hand; the names of the vocabulary are taken from the specification).    *)
(***************************************************************************)
RESULT_TRUE_PROP == "TRUE_PROP"
RESULT_FALSE_REACH == "FALSE_REACH"
RESULT_UNKNOWN == "UNKNOWN"

(***************************************************************************)
(* Tool.determine_result                                                   *)
(***************************************************************************)
isOutOfNativeMemoryContains(line) ==
    \/ In("std::bad_alloc", line)
    \/ In("Cannot allocate memory", line)
    \/ In("Native memory allocation (malloc) failed to allocate", line)
    \/ In("out of memory", line)
    \/ In("Out of memory.", line)

isOutOfNativeMemory(line) ==
    \/ In("std::bad_alloc", line)
    \/ In("Cannot allocate memory", line)
    \/ In("Native memory allocation (malloc) failed to allocate", line)
    \/ StartsWith(line, "out of memory")
    \/ StartsWith(line, "Out of memory.")

NormalizedSignalAlways(rc, sig) ==
    IF rc > 128 THEN rc - 128 ELSE sig

\* lines 93-95: the signal the rest of the function works with
NormalizedSignal(rc, sig) ==
    IF sig = 0 /\ rc > 128 THEN rc - 128 ELSE sig

\* lines 97-113 with signal 9 classified like signal 15
BaselineKill9(rc, sig, timeout) ==
    IF sig # 0 THEN
        IF sig = 6 THEN "ABORTED"
        ELSE IF (sig = 9 \/ sig = 15) /\ timeout THEN "TIMEOUT"
        ELSE IF sig = 11 THEN "SEGMENTATION FAULT"
        ELSE IF sig = 9 \/ sig = 15 THEN "KILLED"
        ELSE "KILLED BY SIGNAL " \o Str(sig)
    ELSE IF rc # 0 THEN "ERROR (" \o Str(rc) \o ")"
    ELSE ""

\* lines 97-113 with only signal 9 taken for a timeout
BaselineTimeout9(rc, sig, timeout) ==
    IF sig # 0 THEN
        IF sig = 6 THEN "ABORTED"
        ELSE IF sig = 9 /\ timeout THEN "TIMEOUT"
        ELSE IF sig = 11 THEN "SEGMENTATION FAULT"
        ELSE IF sig = 15 THEN "KILLED"
        ELSE "KILLED BY SIGNAL " \o Str(sig)
    ELSE IF rc # 0 THEN "ERROR (" \o Str(rc) \o ")"
    ELSE ""

\* lines 97-113 with the return code tested for > 0
BaselinePositive(rc, sig, timeout) ==
    IF sig # 0 THEN
        IF sig = 6 THEN "ABORTED"
        ELSE IF (sig = 9 \/ sig = 15) /\ timeout THEN "TIMEOUT"
        ELSE IF sig = 11 THEN "SEGMENTATION FAULT"
        ELSE IF sig = 15 THEN "KILLED"
        ELSE "KILLED BY SIGNAL " \o Str(sig)
    ELSE IF rc > 0 THEN "ERROR (" \o Str(rc) \o ")"
    ELSE ""

\* lines 97-113: status from the process outcome; sig is the normalized signal
BaselineStatus(rc, sig, timeout) ==
    IF sig # 0 THEN
        IF sig = 6 THEN "ABORTED"
        ELSE IF (sig = 9 \/ sig = 15) /\ timeout THEN "TIMEOUT"
        ELSE IF sig = 11 THEN "SEGMENTATION FAULT"
        ELSE IF sig = 15 THEN "KILLED"
        ELSE "KILLED BY SIGNAL " \o Str(sig)
    ELSE IF rc # 0 THEN "ERROR (" \o Str(rc) \o ")"
    ELSE ""

ErrorPrefixAlways(status, line) == StartsWith(line, "Error: ")

\* line 120: line.startswith('Error: ') and not status
ErrorPrefixFires(status, line) == StartsWith(line, "Error: ") /\ status = ""

\* lines 116-141: the body of the loop, the status after one line
ScanLine(status, line) ==
    IF isOutOfNativeMemory(line) THEN "OUT OF NATIVE MEMORY"
    ELSE IF In("SIGSEGV", line) \/ In("Segmentation fault", line) THEN "SEGMENTATION FAULT"
    ELSE IF ErrorPrefixFires(status, line) THEN "ERROR"
    ELSE IF In("Solver timed out during a query.", line) THEN "SOLVER TIMEOUT"
    ELSE IF In("Aborted due to unknown reason.", line) THEN "ERROR"
    ELSE IF StartsWith(line, "All assertions hold.") THEN RESULT_TRUE_PROP
    ELSE IF StartsWith(line, "Verification result: TRUE") THEN RESULT_TRUE_PROP
    ELSE IF StartsWith(line, "At least one assertion is violated.") THEN RESULT_FALSE_REACH
    ELSE IF StartsWith(line, "VERIFICATION SUCCESSFUL") THEN RESULT_TRUE_PROP
    ELSE IF StartsWith(line, "VERIFICATION FAILED") THEN RESULT_FALSE_REACH
    ELSE IF StartsWith(line, "Verification result: FALSE") THEN RESULT_FALSE_REACH
    ELSE IF StartsWith(line, "No verification result could be determined.") THEN RESULT_UNKNOWN
    ELSE IF StartsWith(line, "All assertions hold up to bound") THEN RESULT_UNKNOWN
    ELSE status

\* the loop run over the lines from the last to the first
RECURSIVE ScanOutputReversed(_, _)
ScanOutputReversed(status, out) ==
    IF out = <<>> THEN status
    ELSE ScanOutputReversed(ScanLine(status, out[Len(out)]), SubSeq(out, 1, Len(out) - 1))

\* line 115: for line in output
RECURSIVE ScanOutput(_, _)
ScanOutput(status, out) ==
    IF out = <<>> THEN status
    ELSE ScanOutput(ScanLine(status, Head(out)), Tail(out))

FinalStatusAsIs(status) == status

\* lines 143-145
FinalStatus(status) == IF status = "" THEN RESULT_UNKNOWN ELSE status

determine_result(rc, sig, out, timeout) ==
    LET signal == NormalizedSignal(rc, sig)
        status == BaselineStatus(rc, signal, timeout)
    IN  FinalStatus(ScanOutput(status, out))

(***************************************************************************)
(* Tool.get_value_from_output.  The returned value is None or Some(text).  *)
(***************************************************************************)
None == <<>>
Some(text) == <<text>>

\* lines 158-163: the value taken from a line that contains the identifier
ValueOfLine(line) ==
    LET startPosition == Find(line, ":", 0) + 1
        endPosition == Find(line, "(", startPosition)
    IN  IF endPosition = -1
        THEN Strip(SliceFrom(line, startPosition))
        ELSE Strip(Slice(line, startPosition, endPosition))

RECURSIVE get_value_last(_, _)
get_value_last(ls, ident) ==
    IF ls = <<>> THEN None
    ELSE IF In(ident, ls[Len(ls)]) THEN Some(ValueOfLine(ls[Len(ls)]))
    ELSE get_value_last(SubSeq(ls, 1, Len(ls) - 1), ident)

RECURSIVE get_value_from_output(_, _)
get_value_from_output(ls, ident) ==
    IF ls = <<>> THEN None
    ELSE IF In(ident, Head(ls)) THEN Some(ValueOfLine(Head(ls)))
    ELSE get_value_from_output(Tail(ls), ident)

(***************************************************************************)
(* The explored arguments.                                                 *)
(***************************************************************************)
\* the text patterns of the loop, in the order of their tests
Patterns ==
    { "std::bad_alloc", "Cannot allocate memory",
      "Native memory allocation (malloc) failed to allocate",
      "out of memory", "Out of memory.",
      "SIGSEGV", "Segmentation fault",
      "Error: ",
      "Solver timed out during a query.",
      "Aborted due to unknown reason.",
      "All assertions hold.", "Verification result: TRUE",
      "At least one assertion is violated.",
      "VERIFICATION SUCCESSFUL", "VERIFICATION FAILED",
      "Verification result: FALSE",
      "No verification result could be determined.",
      "All assertions hold up to bound" }

\* a line is a concatenation of fragments: the patterns and a filler
Fragments == Patterns \cup {"x"}

\* fragments of the outputs combined with every process outcome
FewFragments == {"x", "Error: ", "SIGSEGV", "VERIFICATION SUCCESSFUL"}

\* fragments of the lines given to get_value_from_output
ValueFragments == {"a", "b", ":", "(", " "}

Identifiers == {"a", "b", "ab"}

\* the lines made of exactly k fragments
RECURSIVE LinesOf(_, _)
LinesOf(frags, k) ==
    IF k = 0 THEN {""}
    ELSE {l \o f : l \in LinesOf(frags, k - 1), f \in frags}

\* the sequences of non-empty lines made of at most k fragments in total
RECURSIVE Outputs(_, _)
Outputs(frags, k) ==
    {<<>>} \cup
    UNION { {<<l>> \o rest : l \in LinesOf(frags, j), rest \in Outputs(frags, k - j)}
            : j \in 1..k }

ReturnCodes == {-2, -1, 0, 1, 2, 127, 128, 129, 130, 134, 137, 139, 143, 255}
Signals == {0, 1, 6, 9, 11, 15}

\* the process outcomes combined with every output: the unset baseline and
\* the KILLED BY SIGNAL 9 / TIMEOUT baselines
ScanReturnCodes == {0, 137}
ScanSignals == {0}

Init ==
    /\ \/ /\ returncode \in ReturnCodes
          /\ returnsignal \in Signals
          /\ output \in Outputs(FewFragments, MaxFrags)
       \/ /\ returncode \in ScanReturnCodes
          /\ returnsignal \in ScanSignals
          /\ output \in Outputs(Fragments, MaxFrags)
    /\ isTimeout \in BOOLEAN
    /\ result = ""
    /\ lines = <<>>
    /\ identifier = ""
    /\ value = None
    /\ pc = "ready"

\* the harness calls determine_result with the outcome of the run
DetermineResult ==
    /\ pc = "ready"
    /\ result' = determine_result(returncode, returnsignal, output, isTimeout)
    /\ pc' = "done"
    /\ UNCHANGED <<returncode, returnsignal, isTimeout, output, lines, identifier, value>>

Next == DetermineResult

Spec == Init /\ [][Next]_vars

InitValue ==
    /\ lines \in Outputs(ValueFragments, MaxChars)
    /\ identifier \in Identifiers
    /\ value = None
    /\ returncode = 0
    /\ returnsignal = 0
    /\ isTimeout = FALSE
    /\ output = <<>>
    /\ result = ""
    /\ pc = "ready"

\* the harness calls get_value_from_output for a statistic column
GetValueFromOutput ==
    /\ pc = "ready"
    /\ value' = get_value_from_output(lines, identifier)
    /\ pc' = "done"
    /\ UNCHANGED <<returncode, returnsignal, isTimeout, output, result, lines, identifier>>

NextValue == GetValueFromOutput

SpecValue == InitValue /\ [][NextValue]_vars

(***************************************************************************)
(* Vocabulary of the properties, stated on the arguments themselves.       *)
(***************************************************************************)
RuleIds == 1..13

\* the condition of the k-th test of the loop body, in the order of the tests
RuleHolds(k, status, line) ==
    CASE k = 1 -> \/ In("std::bad_alloc", line)
                  \/ In("Cannot allocate memory", line)
                  \/ In("Native memory allocation (malloc) failed to allocate", line)
                  \/ StartsWith(line, "out of memory")
                  \/ StartsWith(line, "Out of memory.")
      [] k = 2 -> In("SIGSEGV", line) \/ In("Segmentation fault", line)
      [] k = 3 -> StartsWith(line, "Error: ") /\ status = ""
      [] k = 4 -> In("Solver timed out during a query.", line)
      [] k = 5 -> In("Aborted due to unknown reason.", line)
      [] k = 6 -> StartsWith(line, "All assertions hold.")
      [] k = 7 -> StartsWith(line, "Verification result: TRUE")
      [] k = 8 -> StartsWith(line, "At least one assertion is violated.")
      [] k = 9 -> StartsWith(line, "VERIFICATION SUCCESSFUL")
      [] k = 10 -> StartsWith(line, "VERIFICATION FAILED")
      [] k = 11 -> StartsWith(line, "Verification result: FALSE")
      [] k = 12 -> StartsWith(line, "No verification result could be determined.")
      [] k = 13 -> StartsWith(line, "All assertions hold up to bound")

RuleVerdict(k) ==
    CASE k = 1 -> "OUT OF NATIVE MEMORY"
      [] k = 2 -> "SEGMENTATION FAULT"
      [] k = 3 -> "ERROR"
      [] k = 4 -> "SOLVER TIMEOUT"
      [] k = 5 -> "ERROR"
      [] k \in {6, 7, 9} -> RESULT_TRUE_PROP
      [] k \in {8, 10, 11} -> RESULT_FALSE_REACH
      [] k \in {12, 13} -> RESULT_UNKNOWN

\* every rule but the 'Error: ' prefix
UnconditionalRules == RuleIds \ {3}

\* the unconditional rules whose pattern the line matches
UnconditionalOf(line) == {k \in UnconditionalRules : RuleHolds(k, "", line)}

\* the line matches at least one text pattern
TextMatch(line) == \E k \in RuleIds : RuleHolds(k, "", line)

NoLineMatches == \A i \in 1..Len(output) : ~TextMatch(output[i])

\* the reported signal, or returncode - 128 when none was reported and returncode > 128
EffectiveSignal ==
    IF returnsignal # 0 THEN returnsignal
    ELSE IF returncode > 128 THEN returncode - 128
    ELSE 0

\* the status the loop holds before it reads line i (after the last line for i = Len + 1)
StatusBefore(i) ==
    ScanOutput(BaselineStatus(returncode, NormalizedSignal(returncode, returnsignal), isTimeout),
               SubSeq(output, 1, i - 1))

\* no status is set when line i is read: empty baseline and no earlier line fired
UnsetBefore(i) ==
    /\ returncode = 0
    /\ returnsignal = 0
    /\ \A j \in 1..(i - 1) : ~TextMatch(output[j])

IsDigits(s) ==
    /\ Len(s) > 0
    /\ \A i \in 1..Len(s) : In(SubSeq(s, i, i), "0123456789")

\* s is the decimal numeral of an integer
IsNumeral(s) == IsDigits(s) \/ (StartsWith(s, "-") /\ IsDigits(SubSeq(s, 2, Len(s))))

FixedVerdicts ==
    { RESULT_TRUE_PROP, RESULT_FALSE_REACH, RESULT_UNKNOWN, "TIMEOUT", "ABORTED",
      "SEGMENTATION FAULT", "KILLED", "OUT OF NATIVE MEMORY", "SOLVER TIMEOUT", "ERROR" }

IsVerdict(s) ==
    \/ s \in FixedVerdicts
    \/ /\ StartsWith(s, "KILLED BY SIGNAL ")
       /\ IsNumeral(SubSeq(s, Len("KILLED BY SIGNAL ") + 1, Len(s)))
    \/ /\ StartsWith(s, "ERROR (")
       /\ Len(s) > Len("ERROR ()")
       /\ SubSeq(s, Len(s), Len(s)) = ")"
       /\ IsNumeral(SubSeq(s, Len("ERROR (") + 1, Len(s) - 1))

(***************************************************************************)
(* Properties of determine_result, checked under Spec.                     *)
(***************************************************************************)

\* C1: whatever the return code, signal, timeout flag and output, the value
\* returned by determine_result is a non-empty member of the closed set of
\* verdicts; the empty string is never returned.
C1_VerdictInClosedSet ==
    pc = "done" => result # "" /\ IsVerdict(result)

C1_Witness ==
    /\ pc = "done"
    /\ returncode < 0
    /\ returnsignal = 0
    /\ output # <<>>
    /\ result = "ERROR (" \o Str(returncode) \o ")"

\* C2 as stated: with no matching line, a nonzero effective signal and no
\* timed-out kill, signal 6 gives ABORTED, 9 gives KILLED, 11 gives
\* SEGMENTATION FAULT, 15 gives KILLED, any other n gives KILLED BY SIGNAL n.
C2_SignalDispatchAsStated ==
    (pc = "done" /\ NoLineMatches /\ EffectiveSignal # 0
        /\ ~(isTimeout /\ EffectiveSignal \in {9, 15}))
    => result = CASE EffectiveSignal = 6 -> "ABORTED"
                  [] EffectiveSignal = 9 -> "KILLED"
                  [] EffectiveSignal = 11 -> "SEGMENTATION FAULT"
                  [] EffectiveSignal = 15 -> "KILLED"
                  [] OTHER -> "KILLED BY SIGNAL " \o Str(EffectiveSignal)

\* C2 amended: with no matching line, a nonzero effective signal and no
\* timed-out kill, signal 6 gives ABORTED, 11 gives SEGMENTATION FAULT, 15
\* gives KILLED, and every other signal n, 9 included, gives KILLED BY SIGNAL n.
C2_SignalDispatch ==
    (pc = "done" /\ NoLineMatches /\ EffectiveSignal # 0
        /\ ~(isTimeout /\ EffectiveSignal \in {9, 15}))
    => result = CASE EffectiveSignal = 6 -> "ABORTED"
                  [] EffectiveSignal = 11 -> "SEGMENTATION FAULT"
                  [] EffectiveSignal = 15 -> "KILLED"
                  [] OTHER -> "KILLED BY SIGNAL " \o Str(EffectiveSignal)

C2_Witness ==
    /\ pc = "done"
    /\ NoLineMatches
    /\ output # <<>>
    /\ EffectiveSignal = 9
    /\ ~isTimeout
    /\ result = "KILLED BY SIGNAL 9"

\* C3: with no matching line, the verdict is TIMEOUT exactly when isTimeout
\* holds and the effective signal is 9 or 15.
C3_TimeoutIffKillSignal ==
    (pc = "done" /\ NoLineMatches)
    => (result = "TIMEOUT" <=> (isTimeout /\ EffectiveSignal \in {9, 15}))

C3_Witness ==
    /\ pc = "done"
    /\ NoLineMatches
    /\ returnsignal = 0
    /\ returncode = 143
    /\ isTimeout
    /\ result = "TIMEOUT"

\* C4: a return code above 128 without a reported signal gives the verdict of
\* the signal returncode - 128; a return code of at most 128 without a
\* reported signal is treated as a plain return code; with a reported signal
\* the verdict is the same for every return code.
C4_SignalNormalization ==
    pc = "done" =>
        /\ (returnsignal = 0 /\ returncode > 128)
            => result = determine_result(returncode, returncode - 128, output, isTimeout)
        /\ (returnsignal = 0 /\ returncode <= 128)
            => result = FinalStatus(ScanOutput(
                    IF returncode = 0 THEN "" ELSE "ERROR (" \o Str(returncode) \o ")",
                    output))
        /\ returnsignal # 0
            => \A rc \in ReturnCodes :
                   determine_result(rc, returnsignal, output, isTimeout) = result

C4_Witness ==
    /\ pc = "done"
    /\ returnsignal = 0
    /\ returncode = 139
    /\ output = <<>>
    /\ result = "SEGMENTATION FAULT"

\* C5: without a reported signal and with no matching line, a nonzero return
\* code of at most 128 gives ERROR (returncode) and return code 0 gives
\* UNKNOWN, whatever isTimeout is.
C5_ReturnCodeBaseline ==
    (pc = "done" /\ returnsignal = 0 /\ returncode <= 128 /\ NoLineMatches)
    => result = IF returncode = 0 THEN RESULT_UNKNOWN
                ELSE "ERROR (" \o Str(returncode) \o ")"

C5_Witness ==
    /\ pc = "done"
    /\ returnsignal = 0
    /\ returncode = -2
    /\ isTimeout
    /\ NoLineMatches
    /\ result = "ERROR (-2)"

\* the index of the last line that matches an unconditional pattern, 0 if none
LastUnconditional ==
    LET hits == {i \in 1..Len(output) : UnconditionalOf(output[i]) # {}}
    IN  IF hits = {} THEN 0 ELSE CHOOSE i \in hits : \A j \in hits : j <= i

\* C6 as stated: when L is the last line that matches an unconditional
\* pattern, the verdict is the verdict of a pattern L matches, whatever the
\* baseline and the other lines are.
C6_LastMatchWinsAsStated ==
    pc = "done" =>
        LET last == LastUnconditional
        IN  last # 0 => result \in {RuleVerdict(k) : k \in UnconditionalOf(output[last])}

\* C6 amended: when L is the last line that matches an unconditional pattern,
\* the verdict is that of the first unconditional pattern, in the order of
\* the tests, that L matches; except that it is ERROR when L starts with
\* 'Error: ', matches neither an out-of-memory nor a segfault pattern, and no
\* status is set when L is read.
C6_LastMatchWins ==
    pc = "done" =>
        LET last == LastUnconditional
            L == output[last]
            first == Min(UnconditionalOf(L))
        IN  last # 0 =>
                result = IF /\ StartsWith(L, "Error: ")
                            /\ first > 2
                            /\ UnsetBefore(last)
                         THEN "ERROR"
                         ELSE RuleVerdict(first)

C6_Witness ==
    /\ pc = "done"
    /\ Len(output) = 2
    /\ LastUnconditional = 1
    /\ StartsWith(output[2], "Error: ")
    /\ returncode = 137
    /\ isTimeout
    /\ result = RESULT_FALSE_REACH

\* a line that starts with 'Error: ' and matches neither an out-of-memory nor
\* a segfault pattern
ErrorLine(line) ==
    StartsWith(line, "Error: ") /\ ~RuleHolds(1, "", line) /\ ~RuleHolds(2, "", line)

\* the effect of line i on the status is that of the 'Error: ' rule, and so
\* is the returned verdict when i is the last line
ErrorRuleEffect(i) ==
    LET before == StatusBefore(i)
        after == IF before = "" THEN "ERROR" ELSE before
    IN  /\ StatusBefore(i + 1) = after
        /\ i = Len(output) => result = after

\* C7 as stated: a line that starts with 'Error: ' and matches neither an
\* out-of-memory nor a segfault pattern sets the status to ERROR when no
\* status is set and leaves a status that is set unchanged.
C7_ErrorPrefixAsStated ==
    pc = "done" =>
        \A i \in 1..Len(output) : ErrorLine(output[i]) => ErrorRuleEffect(i)

\* C7 amended: a line that starts with 'Error: ' sets the status to ERROR when
\* no status is set; it leaves a status that is set unchanged provided it
\* matches none of the out-of-memory, segfault, solver-timeout and 'Aborted
\* due to unknown reason.' patterns.
C7_ErrorPrefix ==
    pc = "done" =>
        \A i \in 1..Len(output) :
            (ErrorLine(output[i])
                /\ (StatusBefore(i) # ""
                        => ~RuleHolds(4, "", output[i]) /\ ~RuleHolds(5, "", output[i])))
            => ErrorRuleEffect(i)

C7_Witness ==
    /\ pc = "done"
    /\ Len(output) = 1
    /\ ErrorLine(output[1])
    /\ returncode = 137
    /\ isTimeout
    /\ result = "TIMEOUT"

\* C10: each line changes the status at most once, to the verdict of the
\* first test, in the order of the tests, whose condition holds for the line
\* and the status before it, and leaves it alone when none holds; a line
\* that starts with 'All assertions hold up to bound' never gives the
\* true-property verdict.
C10_FirstRuleOfLine ==
    pc = "done" =>
        \A i \in 1..Len(output) :
            LET before == StatusBefore(i)
                after == StatusBefore(i + 1)
                holds == {k \in RuleIds : RuleHolds(k, before, output[i])}
            IN  /\ after = IF holds = {} THEN before ELSE RuleVerdict(Min(holds))
                /\ i = Len(output)
                    => result = IF after = "" THEN RESULT_UNKNOWN ELSE after
                /\ StartsWith(output[i], "All assertions hold up to bound")
                    => after # RESULT_TRUE_PROP

C10_Witness ==
    /\ pc = "done"
    /\ Len(output) = 1
    /\ StartsWith(output[1], "VERIFICATION FAILED")
    /\ In("Segmentation fault", output[1])
    /\ result = "SEGMENTATION FAULT"

(***************************************************************************)
(* Properties of get_value_from_output, checked under SpecValue.           *)
(***************************************************************************)
\* the indices of the lines that contain the identifier
Holders == {i \in 1..Len(lines) : In(identifier, lines[i])}

\* C8: the value is None exactly when no line contains the identifier;
\* otherwise it is the value of the first line that contains it, and the
\* lines after that one have no influence.
C8_FirstMatchWins ==
    pc = "done" =>
        /\ value = None <=> Holders = {}
        /\ Holders # {} =>
            /\ value = get_value_from_output(<<lines[Min(Holders)]>>, identifier)
            /\ value = get_value_from_output(SubSeq(lines, 1, Min(Holders)), identifier)

C8_Witness ==
    /\ pc = "done"
    /\ Len(lines) = 2
    /\ Holders = {1, 2}
    /\ value # None
    /\ value # get_value_from_output(<<lines[2]>>, identifier)

\* the text after the colon that follows the identifier in the line, up to
\* the first '(' after that colon or to the end of the line, trimmed
TextAfterIdentifierColon(line, ident) ==
    LET at == Find(line, ident, 0)
        colon == Find(line, ":", at + Len(ident))
        paren == Find(line, "(", colon + 1)
    IN  Strip(IF paren = -1 THEN SliceFrom(line, colon + 1)
              ELSE Slice(line, colon + 1, paren))

\* C9: for the first line that contains the identifier, the value is the
\* text after the colon that follows the identifier, also when another ':'
\* occurs earlier in the line, up to the first '(' after that colon or to the
\* end of the line, with surrounding whitespace trimmed.
C9_TextAfterIdentifierColon ==
    (pc = "done" /\ Holders # {})
    => LET line == lines[Min(Holders)]
           at == Find(line, identifier, 0)
       IN  Find(line, ":", at + Len(identifier)) # -1
               => value = Some(TextAfterIdentifierColon(line, identifier))

====
